---- MODULE Spec2Model ----
(***************************************************************************)
(* Battleship engine (src/engine.py): coordinate codec, BattleGrid         *)
(* placement, attack resolution and Game turn routing.                     *)
(*                                                                         *)
(* Python strings are modelled as sequences of character codes (ord), so   *)
(* that parsing ('A7' -> ('A','7') -> (0,6)) and formatting                *)
(* ((0,6) -> ('A',7) -> 'A7') are computed, not assumed.                   *)
(***************************************************************************)
EXTENDS Integers, Sequences, FiniteSets

VARIABLES
    grid,               \* [player -> BattleGrid.grid : coord string -> GridSpace]
    hits,               \* [player -> [ship name -> Ship.hits]] (per-player fleet copy)
    active_ship_count,  \* [player -> BattleGrid.active_ship_count]
    current_player,     \* Game.current_player
    current_opponent,   \* Game.current_opponent
    input,              \* the string handed to the coordinate codec
    targets,            \* RandomAIPlayer.targets of the computer player
    layout,             \* the locals of a random_layout call in progress
    playing,            \* main.py's playing flag; FALSE where no driving loop runs
    last                \* the last call: its arguments, return value or exception

vars == <<grid, hits, active_ship_count, current_player, current_opponent, input,
          targets, layout, playing, last>>

----------------------------------------------------------------------------
(* Bounds of the model *)

\* longest codec input string
MaxLen == 3
\* resolved attacks (cells in state hit or miss), both grids together
MaxAttacks == 3
\* columns random_layout draws origins from
MaxCols == 2

----------------------------------------------------------------------------
(* Strings *)

None == "None"
NoCoord == <<>>

\* character codes: '\n' '/' '0' '1' '8' '9' ':' '@' 'A' 'H' 'I'
CoreAlphabet == {10, 47, 48, 49, 56, 57, 58, 64, 65, 72, 73}

SeqsOfLen(S, n) == [1..n -> S]

\* codec inputs: every string up to MaxLen over the core alphabet, and every
\* letter-digit pair around the board ('@'..'I' x '/'..':')
Strings ==
    (UNION {SeqsOfLen(CoreAlphabet, n) : n \in 0..MaxLen})
        \cup {<<r, c>> : r \in 64..73, c \in 47..58}

\* the 64 coordinates of the 8x8 board: one letter A-H, one digit 1-8
BoardCoords == {<<r, c>> : r \in 65..72, c \in 49..56}

----------------------------------------------------------------------------
(* Coordinate codec: BattleGrid.valid_coord .. _tuple_to_coord *)

\* coord_regex = r'^([A-H])([0-8])$': whether re.search finds a match.
\* Python's $ also matches just before a trailing newline.
coord_regex_search(coord) ==
    /\ Len(coord) \in {2, 3}
    /\ coord[1] \in 65..72
    /\ coord[2] \in 48..56
    /\ (Len(coord) = 3 => coord[3] = 10)

\* (match.group(1), match.group(2)) of a match
coord_regex_groups(coord) == <<<<coord[1]>>, <<coord[2]>>>>

valid_coord(coord) == coord_regex_search(coord)

\* split_coord: the (row, column) strings, or InvalidCoord(coord)
split_coord(coord) ==
    IF coord_regex_search(coord)
    THEN [ret |-> coord_regex_groups(coord), exc |-> None, exc_coord |-> NoCoord]
    ELSE [ret |-> <<>>, exc |-> "InvalidCoord", exc_coord |-> coord]

digit_domain == 3

RECURSIVE Pow(_, _)
Pow(b, e) == IF e = 0 THEN 1 ELSE b * Pow(b, e - 1)

RECURSIVE SumSeq(_)
SumSeq(s) == IF s = <<>> THEN 0 ELSE Head(s) + SumSeq(Tail(s))

Reversed(s) == [i \in 1..Len(s) |-> s[Len(s) + 1 - i]]

\* int(s) for a string of decimal digits
RECURSIVE int(_)
int(s) == IF Len(s) = 0 THEN 0
          ELSE 10 * int(SubSeq(s, 1, Len(s) - 1)) + (s[Len(s)] - 48)

\* str(n) for an integer
RECURSIVE str(_)
str(n) == IF n < 0 THEN <<45>> \o str(-n)
          ELSE IF n < 10 THEN <<48 + n>>
          ELSE str(n \div 10) \o <<48 + (n % 10)>>

\* ('A','7') -> (0, 6)
coord_tuple_to_index_tuple(coord_tuple) ==
    LET x_ords == Reversed([i \in 1..Len(coord_tuple[1]) |-> coord_tuple[1][i] - 64])
        x_raised == [i \in 1..Len(x_ords) |-> x_ords[i] * Pow(digit_domain, i - 1)]
        x == SumSeq(x_raised) - 1
        y == int(coord_tuple[2]) - 1
    IN <<x, y>>

\* mutant: chr(index_x + 64)
index_tuple_to_coord_tuple_chr64(index_tuple) ==
    <<<<index_tuple[1] + 64>>, index_tuple[2] + 1>>

\* (0, 6) -> ('A', 7): the row a one-character string, the column an integer
index_tuple_to_coord_tuple(index_tuple) ==
    <<<<index_tuple[1] + 65>>, index_tuple[2] + 1>>

\* '{0}{1}'.format(row, column)
tuple_to_coord(coord_tuple) == coord_tuple[1] \o str(coord_tuple[2])

\* the conversions chained as _calculate_coords chains them for one cell
index_to_coord(index_tuple) == tuple_to_coord(index_tuple_to_coord_tuple(index_tuple))

----------------------------------------------------------------------------
(* Ships, grid spaces, outcomes *)

Players == {"human", "computer"}

\* fleet = [Ship.carrier(), ...]; main.py deep-copies it for each player
fleet == <<"Carrier", "Battleship", "Cruiser", "Submarine", "Destroyer">>

\* Ship.size as set by the factory methods
ShipSize == [Carrier |-> 5, Battleship |-> 4, Cruiser |-> 3, Submarine |-> 3, Destroyer |-> 2]

ShipNames == {fleet[i] : i \in 1..Len(fleet)}

\* mutant: hits > size
is_sunk_gt(ship, h) == h > ShipSize[ship]

\* mutant: sunk one hit early
is_sunk_early(ship, h) == h >= ShipSize[ship] - 1

\* Ship.is_sunk on a ship with h hits
is_sunk(ship, h) == h >= ShipSize[ship]

\* GridSpace(grid, coord, ship, state)
GridSpace(ship, state) == [ship |-> ship, state |-> state]

Outcome(outcome_state, ship_name) == [outcome_state |-> outcome_state, ship_name |-> ship_name]
NoOutcome == Outcome(None, None)
Outcome_miss == Outcome("MISS", None)
Outcome_hit(ship) == Outcome("HIT", ship)
Outcome_sunk(ship) == Outcome("SUNK", ship)
Outcome_win(ship) == Outcome("WIN", ship)

is_game_over(outcome) == outcome.outcome_state = "WIN"

\* BattleGrid().grid = {}
EmptyGrid == <<>>

\* self.grid[coord] = cell
GridPut(g, coord, cell) ==
    [k \in (DOMAIN g) \cup {coord} |-> IF k = coord THEN cell ELSE g[k]]

----------------------------------------------------------------------------
(* BattleGrid placement *)

\* _set_grid_space(coord, ship): the grid afterwards, or the exception
set_grid_space(g, coord, ship) ==
    IF ~valid_coord(coord)
    THEN [grid |-> g, exc |-> "InvalidCoord", exc_coord |-> coord]
    ELSE IF coord \notin DOMAIN g
    THEN [grid |-> GridPut(g, coord, GridSpace(ship, "")), exc |-> None, exc_coord |-> NoCoord]
    ELSE [grid |-> g, exc |-> "AlreadyAssigned", exc_coord |-> coord]

\* mutant: the two orientations exchanged
calculate_coords_swapped(origin_coord, orientation, size) ==
    LET origin == coord_tuple_to_index_tuple(origin_coord) IN
    IF orientation = "PORTRAIT"
    THEN [i \in 1..size |-> index_to_coord(<<origin[1], origin[2] + i - 1>>)]
    ELSE [i \in 1..size |-> index_to_coord(<<origin[1] + i - 1, origin[2]>>)]

\* _calculate_coords(origin_coord, orientation, size); origin_coord the (row, column) tuple
calculate_coords(origin_coord, orientation, size) ==
    LET origin == coord_tuple_to_index_tuple(origin_coord)
        origin_row == origin[1]
        origin_column == origin[2]
    IN IF orientation = "LANDSCAPE"
       THEN [i \in 1..size |-> index_to_coord(<<origin_row, origin_column + i - 1>>)]
       ELSE IF orientation = "PORTRAIT"
       THEN [i \in 1..size |-> index_to_coord(<<origin_row + i - 1, origin_column>>)]
       ELSE <<>>

\* mutant: no validation before the cells are set
validate_coords_skipped(g, coords) == [exc |-> None, exc_coord |-> NoCoord]

\* place_ship's first loop: the first coord that is invalid or already in the grid
RECURSIVE validate_coords(_, _)
validate_coords(g, coords) ==
    IF coords = <<>> THEN [exc |-> None, exc_coord |-> NoCoord]
    ELSE IF ~valid_coord(Head(coords))
    THEN [exc |-> "InvalidCoord", exc_coord |-> Head(coords)]
    ELSE IF Head(coords) \in DOMAIN g
    THEN [exc |-> "AlreadyAssigned", exc_coord |-> Head(coords)]
    ELSE validate_coords(g, Tail(coords))

\* place_ship's second loop: _set_grid_space on each coord in turn; an exception
\* leaves the cells set so far
RECURSIVE set_grid_spaces(_, _, _)
set_grid_spaces(g, coords, ship) ==
    IF coords = <<>> THEN [grid |-> g, exc |-> None, exc_coord |-> NoCoord]
    ELSE LET r == set_grid_space(g, Head(coords), ship) IN
         IF r.exc /= None THEN r ELSE set_grid_spaces(r.grid, Tail(coords), ship)

\* mutant: active_ship_count is left as it is on success
place_ship_uncounted(g, n, ship, origin_coord, orientation) ==
    IF ~valid_coord(origin_coord)
    THEN [grid |-> g, active_ship_count |-> n, exc |-> "InvalidCoord", exc_coord |-> origin_coord]
    ELSE
    LET coords == calculate_coords(split_coord(origin_coord).ret, orientation, ShipSize[ship])
        v == validate_coords(g, coords)
        r == set_grid_spaces(g, coords, ship)
    IN IF v.exc /= None
       THEN [grid |-> g, active_ship_count |-> n, exc |-> v.exc, exc_coord |-> v.exc_coord]
       ELSE [grid |-> r.grid, active_ship_count |-> n, exc |-> r.exc, exc_coord |-> r.exc_coord]

\* BattleGrid.place_ship on a grid g with live-ship count n
place_ship(g, n, ship, origin_coord, orientation) ==
    IF ~valid_coord(origin_coord)
    THEN [grid |-> g, active_ship_count |-> n, exc |-> "InvalidCoord", exc_coord |-> origin_coord]
    ELSE
    LET coord_tuple == split_coord(origin_coord).ret
        coords == calculate_coords(coord_tuple, orientation, ShipSize[ship])
        v == validate_coords(g, coords)
        r == set_grid_spaces(g, coords, ship)
    IN IF v.exc /= None
       THEN [grid |-> g, active_ship_count |-> n, exc |-> v.exc, exc_coord |-> v.exc_coord]
       ELSE IF r.exc /= None
       THEN [grid |-> r.grid, active_ship_count |-> n, exc |-> r.exc, exc_coord |-> r.exc_coord]
       ELSE [grid |-> r.grid, active_ship_count |-> n + 1, exc |-> None, exc_coord |-> NoCoord]

----------------------------------------------------------------------------
(* Attack resolution *)

\* mutant: only a miss counts as attacked
already_attacked_miss_only(cell) == cell.state = "miss"

\* GridSpace._already_attacked
already_attacked(cell) == cell.state /= ""

\* mutant: the live-ship count compared before it is decremented
last_ship_sunk_before(n) == n = 0

\* the live-ship count after the decrement is 0
last_ship_sunk(n) == n - 1 = 0

\* mutant: a hit counted twice
Ship_hit_twice(h, ship) == [h EXCEPT ![ship] = @ + 2]

\* Ship.hit on the fleet's hit counters h: self.hits += 1
Ship_hit(h, ship) == [h EXCEPT ![ship] = @ + 1]

\* GridSpace.attack on the cell at coord of a grid g, with the fleet's hit
\* counters h and live-ship count n
GridSpace_attack(g, h, n, coord) ==
    LET cell == g[coord]
        unchanged == [grid |-> g, hits |-> h, active_ship_count |-> n,
                      outcome |-> NoOutcome, exc |-> None, exc_coord |-> NoCoord]
    IN
    IF already_attacked(cell)
    THEN [unchanged EXCEPT !.exc = "AlreadyAttacked", !.exc_coord = coord]
    ELSE IF cell.ship = None
    THEN \* _hit does nothing; self.ship.is_sunk() on None
         [unchanged EXCEPT !.exc = "AttributeError"]
    ELSE
    LET ship == cell.ship
        g1 == [g EXCEPT ![coord].state = "hit"]
        h1 == Ship_hit(h, ship)
    IN IF is_sunk(ship, h1[ship])
       THEN IF last_ship_sunk(n)
            THEN [grid |-> g1, hits |-> h1, active_ship_count |-> n - 1,
                  outcome |-> Outcome_win(ship), exc |-> None, exc_coord |-> NoCoord]
            ELSE [grid |-> g1, hits |-> h1, active_ship_count |-> n - 1,
                  outcome |-> Outcome_sunk(ship), exc |-> None, exc_coord |-> NoCoord]
       ELSE [grid |-> g1, hits |-> h1, active_ship_count |-> n,
             outcome |-> Outcome_hit(ship), exc |-> None, exc_coord |-> NoCoord]

\* mutant: the cell of a miss is created unattacked
receive_attack_unmarked(g, h, n, coord) ==
    IF coord \in DOMAIN g
    THEN GridSpace_attack(g, h, n, coord)
    ELSE [grid |-> GridPut(g, coord, GridSpace(None, "")), hits |-> h,
          active_ship_count |-> n, outcome |-> Outcome_miss,
          exc |-> None, exc_coord |-> NoCoord]

\* mutant: an attack on an attacked cell replaces it by a miss cell
receive_attack_overwrite(g, h, n, coord) ==
    IF coord \in DOMAIN g /\ ~already_attacked(g[coord])
    THEN GridSpace_attack(g, h, n, coord)
    ELSE [grid |-> GridPut(g, coord, GridSpace(None, "miss")), hits |-> h,
          active_ship_count |-> n, outcome |-> Outcome_miss,
          exc |-> None, exc_coord |-> NoCoord]

\* Player.receive_attack(coord)
receive_attack(g, h, n, coord) ==
    IF coord \in DOMAIN g
    THEN GridSpace_attack(g, h, n, coord)
    ELSE [grid |-> GridPut(g, coord, GridSpace(None, "miss")), hits |-> h,
          active_ship_count |-> n, outcome |-> Outcome_miss,
          exc |-> None, exc_coord |-> NoCoord]

----------------------------------------------------------------------------
(* Inputs *)

\* strings used as inputs: 'A0' 'A1' 'A2' 'H8' 'H9' 'A9'
sA0 == <<65, 48>>
sA1 == <<65, 49>>
sA2 == <<65, 50>>
sH8 == <<72, 56>>
sH9 == <<72, 57>>
sA9 == <<65, 57>>

\* ships of each player's fleet copy handed to place_ship
ShipInputs == [human |-> {"Destroyer"}, computer |-> {"Submarine", "Destroyer"}]

\* origins handed to place_ship
Origins == {sA1, sA0, sH8, sA9}

Orientations == {"PORTRAIT", "LANDSCAPE"}

\* strings typed at the prompt
Commands == {sA0, sA1, sA2, sH9}

\* main.py's input loop hands take_turn only commands that pass valid_coord
AcceptedCommands == {c \in Commands : valid_coord(c)}

\* the ships of p's fleet copy now on p's grid
Placed(g) == {g[c].ship : c \in DOMAIN g} \ {None}

Attacked(g) == {c \in DOMAIN g : g[c].state /= ""}

NumAttacked == Cardinality(Attacked(grid["human"])) + Cardinality(Attacked(grid["computer"]))

----------------------------------------------------------------------------
(* State machine *)

Call(op, player, ship, coord, orientation) ==
    [op |-> op, player |-> player, ship |-> ship, coord |-> coord,
     orientation |-> orientation, outcome |-> NoOutcome,
     exc |-> None, exc_coord |-> NoCoord, ret |-> <<>>]

\* no random_layout call in progress
NoLayout == [pc |-> "idle", attempted |-> {}, ships_remaining |-> <<>>, reset |-> FALSE]

\* two Players with empty BattleGrids and their own copy of the fleet, neither
\* with a target queue; Game(human, computer)
Init ==
    /\ grid = [p \in Players |-> EmptyGrid]
    /\ hits = [p \in Players |-> [s \in ShipNames |-> 0]]
    /\ active_ship_count = [p \in Players |-> 0]
    /\ current_player = "human"
    /\ current_opponent = "computer"
    /\ input = <<>>
    /\ targets = <<>>
    /\ layout = NoLayout
    /\ playing = FALSE
    /\ last = Call("init", None, None, NoCoord, None)

\* p.battle_grid.place_ship(ship, origin_coord, orientation), ship being p's
\* own instance, not yet on the grid
PlaceShip(p, ship, origin_coord, orientation) ==
    /\ ship \notin Placed(grid[p])
    /\ LET r == place_ship(grid[p], active_ship_count[p], ship, origin_coord, orientation) IN
       /\ grid' = [grid EXCEPT ![p] = r.grid]
       /\ active_ship_count' = [active_ship_count EXCEPT ![p] = r.active_ship_count]
       /\ last' = [Call("place_ship", p, ship, origin_coord, orientation)
                     EXCEPT !.exc = r.exc, !.exc_coord = r.exc_coord]
    /\ UNCHANGED <<hits, current_player, current_opponent, input, targets, layout, playing>>

\* mutant: both players hold the same ship objects, so a hit counts for both
TakeTurn_shared_fleet(coord) ==
    /\ NumAttacked < MaxAttacks
    /\ LET d == current_opponent
           r == receive_attack(grid[d], hits[d], active_ship_count[d], coord)
       IN /\ grid' = [grid EXCEPT ![d] = r.grid]
          /\ hits' = [p \in Players |-> r.hits]
          /\ active_ship_count' = [active_ship_count EXCEPT ![d] = r.active_ship_count]
          /\ last' = [Call("take_turn", d, None, coord, None)
                        EXCEPT !.outcome = r.outcome, !.exc = r.exc, !.exc_coord = r.exc_coord,
                               !.ret = IF r.exc = None THEN <<is_game_over(r.outcome)>> ELSE <<>>]
    /\ UNCHANGED <<current_player, current_opponent, input, targets, layout, playing>>

\* game.take_turn(coord): current_opponent.receive_attack(coord)
TakeTurn(coord) ==
    /\ NumAttacked < MaxAttacks
    /\ LET d == current_opponent
           r == receive_attack(grid[d], hits[d], active_ship_count[d], coord)
       IN /\ grid' = [grid EXCEPT ![d] = r.grid]
          /\ hits' = [hits EXCEPT ![d] = r.hits]
          /\ active_ship_count' = [active_ship_count EXCEPT ![d] = r.active_ship_count]
          /\ last' = [Call("take_turn", d, None, coord, None)
                        EXCEPT !.outcome = r.outcome, !.exc = r.exc, !.exc_coord = r.exc_coord,
                               !.ret = IF r.exc = None THEN <<is_game_over(r.outcome)>> ELSE <<>>]
    /\ UNCHANGED <<current_player, current_opponent, input, targets, layout, playing>>

\* Game.next_player on the roles (cp, co): the tuple assignment
next_player(cp, co) == [current_player |-> co, current_opponent |-> cp]

\* mutant: current_player assigned first, current_opponent from the new value
NextPlayer_sequential ==
    /\ current_player' = current_opponent
    /\ current_opponent' = current_player'
    /\ last' = [Call("next_player", current_player, None, NoCoord, None)
                  EXCEPT !.ret = <<current_player'>>]
    /\ UNCHANGED <<grid, hits, active_ship_count, input, targets, layout, playing>>

\* game.next_player(); last.player is the current player before the call
NextPlayer ==
    /\ current_player' = current_opponent
    /\ current_opponent' = current_player
    /\ last' = [Call("next_player", current_player, None, NoCoord, None)
                  EXCEPT !.ret = <<current_player'>>]
    /\ UNCHANGED <<grid, hits, active_ship_count, input, targets, layout, playing>>

Next ==
    \/ \E p \in Players, o \in Origins, d \in Orientations : \E ship \in ShipInputs[p] :
            PlaceShip(p, ship, o, d)
    \/ \E c \in AcceptedCommands : TakeTurn(c)
    \/ NextPlayer

Spec == Init /\ [][Next]_vars

\* a game as main.py runs it: the ships are placed before the first turn
GameNext ==
    \/ \E p \in Players, o \in Origins, d \in Orientations : \E ship \in ShipInputs[p] :
            NumAttacked = 0 /\ PlaceShip(p, ship, o, d)
    \/ \E c \in AcceptedCommands : TakeTurn(c)
    \/ NextPlayer

GameSpec == Init /\ [][GameNext]_vars

----------------------------------------------------------------------------
(* The codec applied to one input string *)

CodecInit ==
    /\ grid = [p \in Players |-> EmptyGrid]
    /\ hits = [p \in Players |-> [s \in ShipNames |-> 0]]
    /\ active_ship_count = [p \in Players |-> 0]
    /\ current_player = "human"
    /\ current_opponent = "computer"
    /\ input \in Strings
    /\ targets = <<>>
    /\ layout = NoLayout
    /\ playing = FALSE
    /\ last = Call("init", None, None, NoCoord, None)

\* grid.valid_coord(input)
ValidCoord ==
    /\ last.op = "init"
    /\ last' = [Call("valid_coord", None, None, input, None)
                  EXCEPT !.ret = <<valid_coord(input)>>]
    /\ UNCHANGED <<grid, hits, active_ship_count, current_player, current_opponent, input, targets, layout, playing>>

\* grid.split_coord(input)
SplitCoord ==
    /\ last.op = "init"
    /\ LET r == split_coord(input) IN
       last' = [Call("split_coord", None, None, input, None)
                  EXCEPT !.ret = r.ret, !.exc = r.exc, !.exc_coord = r.exc_coord]
    /\ UNCHANGED <<grid, hits, active_ship_count, current_player, current_opponent, input, targets, layout, playing>>

\* grid.coord_tuple_to_index_tuple(grid.split_coord(input))
ToIndex ==
    /\ last.op = "init"
    /\ LET r == split_coord(input) IN
       last' = [Call("to_index", None, None, input, None)
                  EXCEPT !.ret = IF r.exc = None THEN coord_tuple_to_index_tuple(r.ret) ELSE <<>>,
                         !.exc = r.exc, !.exc_coord = r.exc_coord]
    /\ UNCHANGED <<grid, hits, active_ship_count, current_player, current_opponent, input, targets, layout, playing>>

\* input -> index tuple -> coord tuple -> string, the chain of
\* place_ship and _calculate_coords for the origin cell
RoundTrip ==
    /\ last.op = "init"
    /\ LET r == split_coord(input) IN
       last' = [Call("round_trip", None, None, input, None)
                  EXCEPT !.ret = IF r.exc = None
                                 THEN index_to_coord(coord_tuple_to_index_tuple(r.ret))
                                 ELSE <<>>,
                         !.exc = r.exc, !.exc_coord = r.exc_coord]
    /\ UNCHANGED <<grid, hits, active_ship_count, current_player, current_opponent, input, targets, layout, playing>>

CodecNext == ValidCoord \/ SplitCoord \/ ToIndex \/ RoundTrip

CodecSpec == CodecInit /\ [][CodecNext]_vars

----------------------------------------------------------------------------
(* RandomAIPlayer: the target queue *)

\* 'ABCDEFGH'
target_rows == <<65, 66, 67, 68, 69, 70, 71, 72>>

\* mutant: range(1, 8)
target_columns_to_7 == [i \in 1..7 |-> i]

\* range(1, 9)
target_columns == [i \in 1..8 |-> i]

\* ["{0}{1}".format(row, column) for row in 'ABCDEFGH' for column in range(1, 9)]
all_targets ==
    [i \in 1..(Len(target_rows) * Len(target_columns)) |->
        tuple_to_coord(<<<<target_rows[((i - 1) \div Len(target_columns)) + 1]>>,
                         target_columns[((i - 1) % Len(target_columns)) + 1]>>)]

\* steps and offsets of the orders random.shuffle is taken to produce; every
\* step is odd, so i -> i * step + offset is a permutation of the 64 positions
ShuffleSteps == {1, 5, 27, 63}
ShuffleOffsets == 0..(Len(all_targets) - 1)

\* the list s in the order given by step and offset
shuffle(s, step, offset) ==
    [i \in 1..Len(s) |-> s[(((i - 1) * step + offset) % Len(s)) + 1]]

\* random.shuffle(self.targets): one of the orders above
Shuffles == {shuffle(all_targets, step, offset) : step \in ShuffleSteps, offset \in ShuffleOffsets}

\* mutant: the head is returned and left in the queue (targets[0])
next_target_peek(t) ==
    IF t = <<>>
    THEN [ret |-> <<>>, targets |-> t, exc |-> "IndexError"]
    ELSE [ret |-> <<Head(t)>>, targets |-> t, exc |-> None]

\* RandomAIPlayer.next_target on the queue t: self.targets.pop(0)
next_target(t) ==
    IF t = <<>>
    THEN [ret |-> <<>>, targets |-> t, exc |-> "IndexError"]
    ELSE [ret |-> <<Head(t)>>, targets |-> Tail(t), exc |-> None]

\* RandomAIPlayer('Computer'): the queue built and shuffled
AIInit ==
    /\ grid = [p \in Players |-> EmptyGrid]
    /\ hits = [p \in Players |-> [s \in ShipNames |-> 0]]
    /\ active_ship_count = [p \in Players |-> 0]
    /\ current_player = "human"
    /\ current_opponent = "computer"
    /\ input = <<>>
    /\ targets \in Shuffles
    /\ layout = NoLayout
    /\ playing = FALSE
    /\ last = Call("init", None, None, NoCoord, None)

\* computer.next_target()
NextTarget ==
    /\ LET r == next_target(targets) IN
       /\ targets' = r.targets
       /\ last' = [Call("next_target", "computer", None, NoCoord, None)
                     EXCEPT !.ret = r.ret, !.exc = r.exc]
    /\ UNCHANGED <<grid, hits, active_ship_count, current_player, current_opponent, input, layout, playing>>

AINext == NextTarget

AISpec == AIInit /\ [][AINext]_vars

----------------------------------------------------------------------------
(* Placement and attacks at the lower right corner of the computer's grid *)

\* 'G8' 'H7'
sG8 == <<71, 56>>
sH7 == <<72, 55>>

\* origins handed to place_ship
EdgeOrigins == {sG8, sH7, sH8, sH9}

\* strings typed at the prompt
EdgeCommands == {sH7, sH8, sH9}

EdgeNext ==
    \/ \E o \in EdgeOrigins, d \in Orientations : \E ship \in ShipInputs["computer"] :
            PlaceShip("computer", ship, o, d)
    \/ \E c \in {c \in EdgeCommands : valid_coord(c)} : TakeTurn(c)

EdgeSpec == Init /\ [][EdgeNext]_vars

----------------------------------------------------------------------------
(* BattleGrid.random_layout *)

\* the rows and columns the origin is drawn from: the first two characters of
\* 'ABCDEFGH' and the first MaxCols characters of '12345678'
layout_rows == <<65, 66>>
layout_columns == [i \in 1..MaxCols |-> 48 + i]

\* random.choice('ABCDEFGH') + random.choice('12345678')
LayoutCoords ==
    {<<layout_rows[i], layout_columns[j]>> : i \in 1..Len(layout_rows), j \in 1..Len(layout_columns)}

\* max_attempts = 8 * 8 * 2: rows x columns x orientations, the number of
\* distinct (coord, orientation) draws; it keeps that value for the rows and
\* columns drawn here
max_attempts == Len(layout_rows) * Len(layout_columns) * Cardinality(Orientations)

\* the ships handed to random_layout
LayoutFleet == <<"Cruiser", "Submarine", "Destroyer">>

\* BattleGrid.reset
reset == [grid |-> EmptyGrid, active_ship_count |-> 0]

\* the inner while condition
layout_inner(l) == Cardinality(l.attempted) < max_attempts /\ Len(l.ships_remaining) > 0

\* mutant: the ship leaves ships_remaining whether or not place_ship raised
random_layout_try_always_pop(g, n, l, coord, orientation) ==
    LET r == place_ship(g, n, Head(l.ships_remaining), coord, orientation) IN
    IF <<coord, orientation>> \in l.attempted
    THEN [grid |-> g, active_ship_count |-> n, layout |-> l, attempt |-> FALSE,
          exc |-> None, exc_coord |-> NoCoord]
    ELSE [grid |-> r.grid, active_ship_count |-> r.active_ship_count,
          layout |-> [l EXCEPT !.attempted = @ \cup {<<coord, orientation>>},
                               !.ships_remaining = Tail(@)],
          attempt |-> TRUE, exc |-> r.exc, exc_coord |-> r.exc_coord]

\* one pass of the inner loop body with the draw (coord, orientation), on a
\* grid g with live-ship count n and the locals l
random_layout_try(g, n, l, coord, orientation) ==
    LET r == place_ship(g, n, Head(l.ships_remaining), coord, orientation) IN
    IF <<coord, orientation>> \in l.attempted
    THEN [grid |-> g, active_ship_count |-> n, layout |-> l, attempt |-> FALSE,
          exc |-> None, exc_coord |-> NoCoord]
    ELSE [grid |-> r.grid, active_ship_count |-> r.active_ship_count,
          layout |-> [l EXCEPT !.attempted = @ \cup {<<coord, orientation>>},
                               !.ships_remaining = IF r.exc = None THEN Tail(@) ELSE @],
          attempt |-> TRUE, exc |-> r.exc, exc_coord |-> r.exc_coord]

\* human.random_layout(ships) entered on an empty grid: attempted = set(),
\* ships_remaining = ships[:]
LayoutInit ==
    /\ grid = [p \in Players |-> EmptyGrid]
    /\ hits = [p \in Players |-> [s \in ShipNames |-> 0]]
    /\ active_ship_count = [p \in Players |-> 0]
    /\ current_player = "human"
    /\ current_opponent = "computer"
    /\ input = <<>>
    /\ targets = <<>>
    /\ layout = [pc |-> "running", attempted |-> {}, ships_remaining |-> LayoutFleet,
                 reset |-> FALSE]
    /\ playing = FALSE
    /\ last = Call("init", None, None, NoCoord, None)

\* a pass of the inner loop; a draw already in attempted changes nothing
LayoutTry(coord, orientation) ==
    /\ layout.pc = "running"
    /\ layout_inner(layout)
    /\ LET r == random_layout_try(grid["human"], active_ship_count["human"], layout,
                                  coord, orientation)
       IN /\ grid' = [grid EXCEPT !["human"] = r.grid]
          /\ active_ship_count' = [active_ship_count EXCEPT !["human"] = r.active_ship_count]
          /\ layout' = r.layout
          /\ last' = IF r.attempt
                     THEN [Call("place_ship", "human", Head(layout.ships_remaining),
                                coord, orientation)
                             EXCEPT !.exc = r.exc, !.exc_coord = r.exc_coord]
                     ELSE last
    /\ UNCHANGED <<hits, current_player, current_opponent, input, targets, playing>>

\* the inner loop left with ships remaining: ships_remaining = ships[:] and
\* self.reset(); attempted is left as it is
LayoutReset ==
    /\ layout.pc = "running"
    /\ ~layout_inner(layout)
    /\ Len(layout.ships_remaining) > 0
    /\ grid' = [grid EXCEPT !["human"] = reset.grid]
    /\ active_ship_count' = [active_ship_count EXCEPT !["human"] = reset.active_ship_count]
    /\ layout' = [layout EXCEPT !.ships_remaining = LayoutFleet, !.reset = TRUE]
    /\ last' = Call("reset", "human", None, NoCoord, None)
    /\ UNCHANGED <<hits, current_player, current_opponent, input, targets, playing>>

\* both loops left with no ship remaining: random_layout returns
LayoutReturn ==
    /\ layout.pc = "running"
    /\ Len(layout.ships_remaining) = 0
    /\ layout' = [layout EXCEPT !.pc = "returned"]
    /\ last' = Call("random_layout", "human", None, NoCoord, None)
    /\ UNCHANGED <<grid, hits, active_ship_count, current_player, current_opponent, input, targets, playing>>

LayoutNext ==
    \/ \E c \in LayoutCoords, d \in Orientations : LayoutTry(c, d)
    \/ LayoutReset
    \/ LayoutReturn

LayoutSpec == LayoutInit /\ [][LayoutNext]_vars

----------------------------------------------------------------------------
(* main.py: the driving loop *)

\* characters str.strip() removes: '\t' '\n' '\v' '\f' '\r' ' '
Whitespace == {9, 10, 11, 12, 13, 32}

RECURSIVE lstrip(_)
lstrip(s) == IF s /= <<>> /\ Head(s) \in Whitespace THEN lstrip(Tail(s)) ELSE s

\* s.strip()
strip(s) == Reversed(lstrip(Reversed(lstrip(s))))

\* s.upper() on ASCII
upper(s) == [i \in 1..Len(s) |-> IF s[i] \in 97..122 THEN s[i] - 32 ELSE s[i]]

\* 'QUIT' 'SHOW'
sQUIT == <<81, 85, 73, 84>>
sSHOW == <<83, 72, 79, 87>>

\* the grid and live-ship count once random_layout has placed each ship of
\* ships at its draw (coord, orientation), every placement succeeding
RECURSIVE lay_out(_, _, _, _)
lay_out(g, n, ships, draws) ==
    IF ships = <<>> THEN [grid |-> g, active_ship_count |-> n]
    ELSE LET r == place_ship(g, n, Head(ships), Head(draws)[1], Head(draws)[2]) IN
         lay_out(r.grid, r.active_ship_count, Tail(ships), Tail(draws))

\* successful draws of p1.random_layout(deepcopy(fleet)):
\* A1 B1 C1 D1 landscape and the Destroyer on H7 H8;
\* D1 E2 F3 F4 portrait and the Destroyer on A7 A8
HumanDraws ==
    { << <<<<65, 49>>, "LANDSCAPE">>, <<<<66, 49>>, "LANDSCAPE">>, <<<<67, 49>>, "LANDSCAPE">>,
         <<<<68, 49>>, "LANDSCAPE">>, <<<<72, 55>>, "LANDSCAPE">> >>,
      << <<<<68, 49>>, "PORTRAIT">>, <<<<69, 50>>, "PORTRAIT">>, <<<<70, 51>>, "PORTRAIT">>,
         <<<<70, 52>>, "PORTRAIT">>, <<<<65, 55>>, "LANDSCAPE">> >> }

\* successful draws of p2.random_layout(deepcopy(fleet)): A1 B1 C1 D1 E1 landscape
ComputerDraws ==
    { << <<<<65, 49>>, "LANDSCAPE">>, <<<<66, 49>>, "LANDSCAPE">>, <<<<67, 49>>, "LANDSCAPE">>,
         <<<<68, 49>>, "LANDSCAPE">>, <<<<69, 49>>, "LANDSCAPE">> >> }

\* orders of the computer's queue taken in the driving loop
MainOffsets == {0, 1, 32}
MainShuffles == {shuffle(all_targets, step, offset) : step \in ShuffleSteps, offset \in MainOffsets}

\* lines typed at the prompt whatever the state: ' h0 ' 'quit' 'show' 'h9'
RawInputs == {<<32, 104, 48, 32>>, <<113, 117, 105, 116>>, <<115, 104, 111, 119>>, <<104, 57>>}

\* two orders in which the human works through the coordinates: A1 .. H8, and
\* A0 .. H0 followed by H8 .. A1
HumanScans ==
    {all_targets,
     [i \in 1..8 |-> <<64 + i, 48>>] \o Reversed(all_targets)}

\* the first coordinate of scan not yet attacked on grid g
NextOf(scan, g) ==
    LET open == {i \in 1..Len(scan) : scan[i] \notin Attacked(g)} IN
    {scan[i] : i \in {i \in open : \A j \in open : i <= j}}

\* the orders the human goes on with: the one whose first coordinate is
\* attacked, either while none is
Following(g) ==
    LET begun == {scan \in HumanScans : Head(scan) \in Attacked(g)} IN
    IF begun = {} THEN HumanScans ELSE begun

\* lines typed at the prompt with the opponent's grid g on the screen
Typed(g) == RawInputs \cup UNION {NextOf(scan, g) : scan \in Following(g)}

\* mutant: next_player is called after a refused attack as well
main_turn_always_swaps(cp, co, g, h, n, command) ==
    LET r == receive_attack(g, h, n, command)
        np == next_player(cp, co)
    IN [grid |-> r.grid, hits |-> r.hits, active_ship_count |-> r.active_ship_count,
        outcome |-> r.outcome, exc |-> r.exc, exc_coord |-> r.exc_coord,
        playing |-> IF r.exc = "AlreadyAttacked" THEN TRUE
                    ELSE IF r.exc /= None THEN FALSE
                    ELSE ~is_game_over(r.outcome),
        current_player |-> IF r.exc \in {None, "AlreadyAttacked"} THEN np.current_player ELSE cp,
        current_opponent |-> IF r.exc \in {None, "AlreadyAttacked"} THEN np.current_opponent ELSE co]

\* the "if playing:" block with the roles (cp, co) and the defender's grid g,
\* hit counters h and live-ship count n: take_turn(command); AlreadyAttacked is
\* reported, any other exception ends the process; on an outcome
\* playing = not won and game.next_player()
main_turn(cp, co, g, h, n, command) ==
    LET r == receive_attack(g, h, n, command)
        np == next_player(cp, co)
    IN [grid |-> r.grid, hits |-> r.hits, active_ship_count |-> r.active_ship_count,
        outcome |-> r.outcome, exc |-> r.exc, exc_coord |-> r.exc_coord,
        playing |-> IF r.exc = "AlreadyAttacked" THEN TRUE
                    ELSE IF r.exc /= None THEN FALSE
                    ELSE ~is_game_over(r.outcome),
        current_player |-> IF r.exc = None THEN np.current_player ELSE cp,
        current_opponent |-> IF r.exc = None THEN np.current_opponent ELSE co]

\* both fleets laid out, Game(p1, p2), playing = True
MainInit ==
    /\ \E hd \in HumanDraws, cd \in ComputerDraws :
         LET hl == lay_out(EmptyGrid, 0, fleet, hd)
             cl == lay_out(EmptyGrid, 0, fleet, cd)
         IN /\ grid = [human |-> hl.grid, computer |-> cl.grid]
            /\ active_ship_count = [human |-> hl.active_ship_count,
                                    computer |-> cl.active_ship_count]
    /\ hits = [p \in Players |-> [s \in ShipNames |-> 0]]
    /\ current_player = "human"
    /\ current_opponent = "computer"
    /\ input = <<>>
    /\ targets \in MainShuffles
    /\ layout = NoLayout
    /\ playing = TRUE
    /\ last = Call("init", None, None, NoCoord, None)

\* a pass of the loop with the computer as current player: next_target, then
\* the "if playing:" block; last.player is the attacker
MainAITurn ==
    /\ playing
    /\ current_player = "computer"
    /\ LET t == next_target(targets) IN
       IF t.exc /= None
       THEN /\ playing' = FALSE
            /\ last' = [Call("ai_turn", current_player, None, NoCoord, None) EXCEPT !.exc = t.exc]
            /\ UNCHANGED <<grid, hits, active_ship_count, current_player, current_opponent, targets>>
       ELSE LET d == current_opponent
                m == main_turn(current_player, current_opponent, grid[d], hits[d],
                               active_ship_count[d], t.ret[1])
            IN /\ targets' = t.targets
               /\ grid' = [grid EXCEPT ![d] = m.grid]
               /\ hits' = [hits EXCEPT ![d] = m.hits]
               /\ active_ship_count' = [active_ship_count EXCEPT ![d] = m.active_ship_count]
               /\ current_player' = m.current_player
               /\ current_opponent' = m.current_opponent
               /\ playing' = m.playing
               /\ last' = [Call("ai_turn", current_player, None, t.ret[1], None)
                             EXCEPT !.outcome = m.outcome, !.exc = m.exc,
                                    !.exc_coord = m.exc_coord]
    /\ UNCHANGED <<input, layout>>

\* a line typed at the human's prompt: QUIT ends the loop, SHOW and anything
\* valid_coord refuses prompt again, a valid coordinate goes to the
\* "if playing:" block; last.player is the attacker
MainHumanInput(line) ==
    /\ playing
    /\ current_player = "human"
    /\ LET command == upper(strip(line))
           d == current_opponent
           m == main_turn(current_player, current_opponent, grid[d], hits[d],
                          active_ship_count[d], command)
       IN IF command = sQUIT
          THEN /\ playing' = FALSE
               /\ last' = Call("quit", current_player, None, command, None)
               /\ UNCHANGED <<grid, hits, active_ship_count, current_player, current_opponent>>
          ELSE IF command = sSHOW \/ ~valid_coord(command)
          THEN /\ last' = Call("prompt", current_player, None, command, None)
               /\ UNCHANGED <<grid, hits, active_ship_count, current_player, current_opponent,
                              playing>>
          ELSE /\ grid' = [grid EXCEPT ![d] = m.grid]
               /\ hits' = [hits EXCEPT ![d] = m.hits]
               /\ active_ship_count' = [active_ship_count EXCEPT ![d] = m.active_ship_count]
               /\ current_player' = m.current_player
               /\ current_opponent' = m.current_opponent
               /\ playing' = m.playing
               /\ last' = [Call("human_turn", current_player, None, command, None)
                             EXCEPT !.outcome = m.outcome, !.exc = m.exc,
                                    !.exc_coord = m.exc_coord]
    /\ UNCHANGED <<input, targets, layout>>

MainNext ==
    \/ MainAITurn
    \/ \E line \in Typed(grid[current_opponent]) : MainHumanInput(line)

MainSpec == MainInit /\ [][MainNext]_vars

----------------------------------------------------------------------------
(* Properties *)

\* the cells occupied by ship on grid g that have not been hit
Unhit(g, ship) == {k \in DOMAIN g : g[k].ship = ship /\ g[k].state = ""}

\* the cells a ship of the given size covers from a two-character origin o,
\* written out character by character
Covered(o, orientation, size) ==
    IF orientation = "LANDSCAPE"
    THEN {<<o[1], o[2] + i>> : i \in 0..(size - 1)}
    ELSE {<<o[1] + i, o[2]>> : i \in 0..(size - 1)}

\* C1: an attack on a coordinate with no cell returns miss and creates a cell in
\* state miss there; a miss cell stays a miss cell through every later step, and
\* an attack on it fails with AlreadyAttacked naming the coordinate.
C1_MissThenAlreadyAttacked ==
    [][/\ \A p \in Players : \A k \in DOMAIN grid[p] :
            grid[p][k].state = "miss" =>
                k \in DOMAIN grid'[p] /\ grid'[p][k].state = "miss"
       /\ last'.op = "take_turn" =>
            LET d == last'.player
                c == last'.coord
            IN /\ d = current_opponent
               /\ c \notin DOMAIN grid[d] =>
                    /\ last'.exc = "None"
                    /\ last'.outcome = [outcome_state |-> "MISS", ship_name |-> "None"]
                    /\ c \in DOMAIN grid'[d]
                    /\ grid'[d][c] = [ship |-> "None", state |-> "miss"]
               /\ (c \in DOMAIN grid[d] /\ grid[d][c].state = "miss") =>
                    /\ last'.exc = "AlreadyAttacked"
                    /\ last'.exc_coord = c
      ]_vars

\* C1 witness: a repeated attack on a miss cell was refused, another cell of
\* that grid having been attacked as well
C1_Witness ==
    /\ last.op = "take_turn"
    /\ last.exc = "AlreadyAttacked"
    /\ grid[last.player][last.coord].state = "miss"
    /\ Cardinality(Attacked(grid[last.player])) >= 2

\* C2: attacking an unattacked cell of ship S returns hit(S) with the live-ship
\* count unchanged when S has another unhit cell; when it is the last unhit cell
\* of S and another ship still has an unhit cell it returns sunk(S) and the
\* live-ship count drops by exactly one.
C2_HitOrSunk ==
    [][last'.op = "take_turn" =>
        LET d == last'.player
            c == last'.coord
            g == grid[d]
        IN (c \in DOMAIN g /\ g[c].ship /= "None" /\ g[c].state = "") =>
            LET S == g[c].ship IN
            /\ Cardinality(Unhit(g, S)) >= 2 =>
                /\ last'.outcome = [outcome_state |-> "HIT", ship_name |-> S]
                /\ active_ship_count'[d] = active_ship_count[d]
            /\ (Unhit(g, S) = {c} /\ \E k \in DOMAIN g :
                    g[k].ship \notin {"None", S} /\ g[k].state = "") =>
                /\ last'.outcome = [outcome_state |-> "SUNK", ship_name |-> S]
                /\ active_ship_count'[d] = active_ship_count[d] - 1
      ]_vars

\* C2 witness: an attack sank a ship while another ship of that grid is afloat
C2_Witness ==
    /\ last.op = "take_turn"
    /\ last.outcome.outcome_state = "SUNK"
    /\ Unhit(grid[last.player], last.outcome.ship_name) = {}
    /\ active_ship_count[last.player] = 1

\* C3: an attack returns win exactly when it hits the only ship cell of the
\* defender's grid that is still unhit; the live-ship count then goes from 1 to
\* 0, the outcome names that cell's ship, and is_game_over() is true for win and
\* false for miss, hit and sunk.
C3_WinIffLastCell ==
    [][last'.op = "take_turn" =>
        LET d == last'.player
            c == last'.coord
            g == grid[d]
            lastCell ==
                /\ c \in DOMAIN g
                /\ g[c].ship /= "None"
                /\ \A k \in DOMAIN g : (g[k].ship /= "None" /\ g[k].state = "") <=> k = c
            win == last'.outcome.outcome_state = "WIN"
        IN /\ win <=> lastCell
           /\ win => /\ last'.outcome.ship_name = g[c].ship
                     /\ active_ship_count[d] = 1
                     /\ active_ship_count'[d] = 0
           /\ last'.exc = "None" => (last'.ret = <<TRUE>> <=> win)
           /\ last'.exc = "None" => (last'.ret = <<FALSE>> <=>
                    last'.outcome.outcome_state \in {"MISS", "HIT", "SUNK"})
      ]_vars

\* C3 witness: an attack won the game
C3_Witness ==
    /\ last.op = "take_turn"
    /\ last.outcome.outcome_state = "WIN"
    /\ last.ret = <<TRUE>>
    /\ active_ship_count[last.player] = 0

\* C4: an attack on a cell in state hit or miss fails with AlreadyAttacked
\* naming that coordinate and changes no cell, no hit counter and no live-ship
\* count.
C4_AlreadyAttackedNoChange ==
    [][last'.op = "take_turn" =>
        LET d == last'.player
            c == last'.coord
        IN (c \in DOMAIN grid[d] /\ grid[d][c].state \in {"hit", "miss"}) =>
            /\ last'.exc = "AlreadyAttacked"
            /\ last'.exc_coord = c
            /\ grid' = grid
            /\ hits' = hits
            /\ active_ship_count' = active_ship_count
      ]_vars

\* C4 witness: a repeated attack on a hit cell was refused
C4_Witness ==
    /\ last.op = "take_turn"
    /\ last.exc = "AlreadyAttacked"
    /\ last.exc_coord = last.coord
    /\ grid[last.player][last.coord].state = "hit"

\* C5: a successful place_ship adds exactly the ship's size cells, the origin
\* and the next size-1 cells by column (landscape) or by row (portrait), each
\* holding the ship unattacked; no other cell of either grid is created or
\* changed and the live-ship count grows by exactly one.
C5_PlaceShipCells ==
    [][(last'.op = "place_ship" /\ last'.exc = "None") =>
        LET p == last'.player
            size == ShipSize[last'.ship]
            new == (DOMAIN grid'[p]) \ (DOMAIN grid[p])
        IN /\ new = Covered(last'.coord, last'.orientation, size)
           /\ Cardinality(new) = size
           /\ \A k \in new : grid'[p][k] = [ship |-> last'.ship, state |-> ""]
           /\ \A k \in DOMAIN grid[p] : k \in DOMAIN grid'[p] /\ grid'[p][k] = grid[p][k]
           /\ \A q \in Players \ {p} : grid'[q] = grid[q]
           /\ active_ship_count' = [active_ship_count EXCEPT ![p] = @ + 1]
           /\ hits' = hits
      ]_vars

\* C5 witness: a ship was placed in portrait orientation on a grid that held cells
C5_Witness ==
    /\ last.op = "place_ship"
    /\ last.exc = "None"
    /\ last.orientation = "PORTRAIT"
    /\ Cardinality(DOMAIN grid[last.player]) > ShipSize[last.ship]

\* C6: after any place_ship every cell of a ship has its row in A-H and its
\* column in 1-8.
C6_ShipCellsOnBoard ==
    \A p \in Players : \A k \in DOMAIN grid[p] :
        grid[p][k].ship /= "None" => k \in BoardCoords

\* C7: place_ship fails with AlreadyAssigned whenever a cell the ship would
\* cover is already in the grid, and a failed place_ship (AlreadyAssigned or
\* InvalidCoord) leaves the grid mapping, the hit counters and the live-ship
\* count as they were.
C7_PlaceShipAllOrNothing ==
    [][last'.op = "place_ship" =>
        LET p == last'.player
            would == Covered(last'.coord, last'.orientation, ShipSize[last'.ship])
        IN /\ (would \cap DOMAIN grid[p] /= {}) => last'.exc = "AlreadyAssigned"
           /\ last'.exc \in {"None", "AlreadyAssigned", "InvalidCoord"}
           /\ last'.exc /= "None" =>
                /\ grid' = grid
                /\ active_ship_count' = active_ship_count
                /\ hits' = hits
      ]_vars

\* C7 witness: a placement was refused for a cell other than its first, with
\* the grid holding exactly the cells it held before
C7_Witness ==
    /\ last.op = "place_ship"
    /\ last.exc = "AlreadyAssigned"
    /\ last.exc_coord /= last.coord
    /\ last.coord \notin DOMAIN grid[last.player]

\* C8: valid_coord is true exactly for the 64 strings of one letter A-H
\* followed by one digit 1-8.
C8_ValidCoordIsBoard ==
    last.op = "valid_coord" => (last.ret = <<TRUE>> <=> input \in BoardCoords)

\* C9: for each of the 64 board coordinates, split_coord followed by
\* coord_tuple_to_index_tuple gives (letter - 'A', digit - '1'), a pair no
\* other board coordinate maps to, and converting that pair back with
\* index_tuple_to_coord_tuple and _tuple_to_coord gives the coordinate again.
C9_RoundTrip ==
    input \in BoardCoords =>
        /\ last.op = "round_trip" => (last.exc = "None" /\ last.ret = input)
        /\ last.op = "to_index" =>
            /\ last.exc = "None"
            /\ last.ret = <<input[1] - 65, input[2] - 49>>
            /\ \A c \in BoardCoords \ {input} :
                    coord_tuple_to_index_tuple(split_coord(c).ret) /= last.ret

\* C9 witness: the coordinate H8 came back from the round trip
C9_Witness ==
    /\ last.op = "round_trip"
    /\ input = sH8
    /\ last.ret = sH8

\* C10: next_player exchanges current_player and current_opponent, returns the
\* new current_player and changes no grid, hit counter or live-ship count; a
\* second call right after the first restores the roles held before the first.
C10_NextPlayerSwaps ==
    [][last'.op = "next_player" =>
        /\ current_player' = current_opponent
        /\ current_opponent' = current_player
        /\ last'.ret = <<current_opponent>>
        /\ grid' = grid
        /\ hits' = hits
        /\ active_ship_count' = active_ship_count
        /\ last.op = "next_player" =>
            /\ current_player' = last.player
            /\ current_opponent' = last.ret[1]
      ]_vars

\* C10 witness: two next_player calls in a row on a game with ships and attacks
C10_Witness ==
    /\ last.op = "next_player"
    /\ last.player = "computer"
    /\ current_player = "human"
    /\ \A p \in Players : Attacked(grid[p]) /= {} /\ Placed(grid[p]) /= {}

\* the entries of a sequence
Range(s) == {s[i] : i \in 1..Len(s)}

\* C11: the target queue starts as the 64 board coordinates, each once; every
\* next_target call on a non-empty queue returns the head and removes exactly
\* that entry, so the queue never holds an entry twice, never holds again a
\* coordinate it returned, and shrinks by one per call.
C11_TargetQueue ==
    [][/\ last.op = "init" =>
            /\ Len(targets) = 64
            /\ Range(targets) = BoardCoords
       /\ Cardinality(Range(targets)) = Len(targets)
       /\ (last'.op = "next_target" /\ targets /= <<>>) =>
            /\ last'.exc = "None"
            /\ last'.ret = <<Head(targets)>>
            /\ targets' = Tail(targets)
            /\ Len(targets') = Len(targets) - 1
            /\ Range(targets') = Range(targets) \ {Head(targets)}
      ]_vars

\* C11 witness: the 64th call emptied the queue, returning its last entry
C11_Witness ==
    /\ last.op = "next_target"
    /\ last.exc = "None"
    /\ last.ret \in {<<c>> : c \in BoardCoords}
    /\ targets = <<>>

\* the i-th cell (from 0) along a ship laid from a two-character origin o
CellAt(o, orientation, i) ==
    IF orientation = "LANDSCAPE" THEN <<o[1], o[2] + i>> ELSE <<o[1] + i, o[2]>>

\* C12: a place_ship from a valid origin whose cells include one out of the
\* board and one already in the grid fails with InvalidCoord naming the first
\* out-of-board cell, whichever of the two cells comes first along the ship.
C12_BoundsBeforeOccupancy ==
    [][(last'.op = "place_ship" /\ last'.coord \in BoardCoords) =>
          LET g == grid[last'.player]
              o == last'.coord
              d == last'.orientation
              along == 0..(ShipSize[last'.ship] - 1)
              out == {i \in along : CellAt(o, d, i) \notin BoardCoords}
              occupied == {i \in along : CellAt(o, d, i) \in DOMAIN g}
          IN (out /= {} /\ occupied /= {}) =>
                /\ last'.exc = "InvalidCoord"
                /\ \E i \in out : /\ \A j \in out : i <= j
                                  /\ last'.exc_coord = CellAt(o, d, i)
      ]_vars

\* C13: whenever random_layout has reset the grid with ships remaining, its
\* inner loop is entered again, so that further place_ship attempts are made
\* and the call is not left resetting without attempting any placement.
C13_RetryAfterReset ==
    (layout.pc = "running" /\ layout.reset /\ Len(layout.ships_remaining) > 0)
        => Cardinality(layout.attempted) < max_attempts

C15_LiveShipCount ==
    \A p \in Players :
        active_ship_count[p] =
            Cardinality({s \in Placed(grid[p]) : hits[p][s] < ShipSize[s]})

\* C15 witness: a ship was placed on a grid after another ship of that grid
\* was sunk
C15_Witness ==
    /\ last.op = "place_ship"
    /\ last.exc = "None"
    /\ \E s \in Placed(grid[last.player]) : hits[last.player][s] = ShipSize[s]
    /\ active_ship_count[last.player] = 1

\* the cells occupied by ship on grid g that are in state hit
HitCells(g, ship) == {k \in DOMAIN g : g[k].ship = ship /\ g[k].state = "hit"}

\* C17: every ship's hit counter lies between 0 and its size and is the
\* number of cells of its grid that reference the ship and are in state hit.
C17_HitsAreHitCells ==
    \A p \in Players : \A s \in ShipNames :
        /\ hits[p][s] \in 0..ShipSize[s]
        /\ hits[p][s] = Cardinality(HitCells(grid[p], s))

\* C17 witness: a three-cell ship with two of its cells hit
C17_Witness ==
    \E p \in Players : \E s \in Placed(grid[p]) :
        /\ ShipSize[s] = 3
        /\ hits[p][s] = 2
        /\ Cardinality(Unhit(grid[p], s)) = 1

\* C18: a placed ship is sunk exactly when none of its cells is unhit, and an
\* attack that returns sunk or win names a ship with no unhit cell left.
C18_SunkIffAllHit ==
    /\ \A p \in Players : \A s \in Placed(grid[p]) :
            is_sunk(s, hits[p][s]) <=> Unhit(grid[p], s) = {}
    /\ (last.op = "take_turn" /\ last.outcome.outcome_state \in {"SUNK", "WIN"}) =>
            /\ last.outcome.ship_name \in Placed(grid[last.player])
            /\ Unhit(grid[last.player], last.outcome.ship_name) = {}

\* C18 witness: an attack sank one ship while another ship of that grid has
\* both a hit and an unhit cell
C18_Witness ==
    /\ last.op = "take_turn"
    /\ last.outcome.outcome_state = "SUNK"
    /\ \E s \in Placed(grid[last.player]) :
            /\ HitCells(grid[last.player], s) /= {}
            /\ Unhit(grid[last.player], s) /= {}

\* C19: through every step of a game a cell stays in the grid with the ship it
\* references, an unattacked cell only ever becomes hit, a hit or miss cell
\* keeps its state, and a cell that is new is a miss cell without a ship or an
\* unattacked cell of a ship; in every state a miss cell references no ship
\* and a hit cell references one.
C19_CellsMonotone ==
    [][\A p \in Players :
          /\ \A k \in DOMAIN grid[p] :
                /\ k \in DOMAIN grid'[p]
                /\ grid'[p][k].ship = grid[p][k].ship
                /\ grid[p][k].state \in {"hit", "miss"} => grid'[p][k].state = grid[p][k].state
                /\ grid[p][k].state = "" => grid'[p][k].state \in {"", "hit"}
          /\ \A k \in DOMAIN grid'[p] :
                /\ k \notin DOMAIN grid[p] =>
                      \/ grid'[p][k] = [ship |-> "None", state |-> "miss"]
                      \/ grid'[p][k].ship /= "None" /\ grid'[p][k].state = ""
                /\ grid'[p][k].state = "miss" => grid'[p][k].ship = "None"
                /\ grid'[p][k].state = "hit" => grid'[p][k].ship /= "None"
      ]_vars

\* C19 witness: an attack was refused on a grid that holds a hit cell, a miss
\* cell and an unattacked cell
C19_Witness ==
    /\ last.op = "take_turn"
    /\ last.exc = "AlreadyAttacked"
    /\ \E k1, k2, k3 \in DOMAIN grid[last.player] :
            /\ grid[last.player][k1].state = "hit"
            /\ grid[last.player][k2].state = "miss"
            /\ grid[last.player][k3].state = ""

\* C20: a take_turn changes nothing of any player but the current opponent:
\* the other grid, its ships' hit counters and its live-ship count stay as they
\* are, as do current_player and current_opponent; only the attacked ship's
\* counter on the defender's side can change.
C20_TakeTurnFrame ==
    [][last'.op = "take_turn" =>
          /\ last'.player = current_opponent
          /\ current_player' = current_player
          /\ current_opponent' = current_opponent
          /\ \A p \in Players \ {current_opponent} :
                /\ grid'[p] = grid[p]
                /\ hits'[p] = hits[p]
                /\ active_ship_count'[p] = active_ship_count[p]
          /\ \A s \in ShipNames :
                hits'[current_opponent][s] /= hits[current_opponent][s] =>
                    /\ last'.coord \in DOMAIN grid[current_opponent]
                    /\ grid[current_opponent][last'.coord].ship = s
      ]_vars

\* C20 witness: an attack hit the defender's Destroyer while the attacker's
\* own Destroyer, placed and already hit once, kept its counter
C20_Witness ==
    /\ last.op = "take_turn"
    /\ last.outcome = [outcome_state |-> "HIT", ship_name |-> "Destroyer"]
    /\ last.player = current_opponent
    /\ "Destroyer" \in Placed(grid[current_player])
    /\ hits[current_player]["Destroyer"] = 1
    /\ hits[current_opponent]["Destroyer"] = 1

\* C16: in a game whose ships are placed before the first attack, a grid's
\* live-ship count reaches zero only by an attack that returns win, made when
\* one ship is left afloat with one unhit cell; from then on the count stays
\* zero, no further attack on that grid returns win, and every attack it
\* accepts returns miss.
C16_WinOnce ==
    [][\A p \in Players :
          /\ (active_ship_count[p] > 0 /\ active_ship_count'[p] = 0) =>
                /\ last'.op = "take_turn"
                /\ last'.player = p
                /\ last'.outcome.outcome_state = "WIN"
                /\ active_ship_count[p] = 1
                /\ Cardinality(UNION {Unhit(grid[p], s) : s \in Placed(grid[p])}) = 1
          /\ (last'.op = "take_turn" /\ last'.player = p
                /\ last'.outcome.outcome_state = "WIN") =>
                active_ship_count[p] > 0 /\ active_ship_count'[p] = 0
          /\ (active_ship_count[p] = 0 /\ Placed(grid[p]) /= {}) =>
                /\ active_ship_count'[p] = 0
                /\ (last'.op = "take_turn" /\ last'.player = p /\ last'.exc = "None") =>
                      last'.outcome = [outcome_state |-> "MISS", ship_name |-> "None"]
      ]_vars

\* C16 witness: an attack on a grid whose only ship was sunk returned miss
C16_Witness ==
    /\ last.op = "take_turn"
    /\ last.outcome.outcome_state = "MISS"
    /\ Placed(grid[last.player]) /= {}
    /\ active_ship_count[last.player] = 0

\* C24: every key of a player's grid is a board coordinate (row A-H, column
\* 1-8), so a grid holds at most 64 cells and every key decodes to an index
\* pair inside [0,8) x [0,8).
C24_GridKeysOnBoard ==
    \A p \in Players :
        /\ DOMAIN grid[p] \subseteq BoardCoords
        /\ Cardinality(DOMAIN grid[p]) <= 64
        /\ \A k \in DOMAIN grid[p] :
              LET index_tuple == coord_tuple_to_index_tuple(split_coord(k).ret) IN
              index_tuple[1] \in 0..7 /\ index_tuple[2] \in 0..7

\* C21: in the driving loop an attack refused with AlreadyAttacked leaves the
\* roles, both grids, the hit counters and the live-ship counts as they were
\* and the loop running, so the same player attacks again; the roles change
\* only in a pass whose attack returned an outcome.
C21_RefusedAttackKeepsTurn ==
    [][/\ (last'.op \in {"human_turn", "ai_turn"} /\ last'.exc = "AlreadyAttacked") =>
            /\ current_player' = current_player
            /\ current_opponent' = current_opponent
            /\ grid' = grid
            /\ hits' = hits
            /\ active_ship_count' = active_ship_count
            /\ playing'
            /\ last'.player = current_player'
       /\ (current_player' /= current_player \/ current_opponent' /= current_opponent) =>
            /\ last'.op \in {"human_turn", "ai_turn"}
            /\ last'.exc = "None"
            /\ last'.outcome.outcome_state \in {"MISS", "HIT", "SUNK", "WIN"}
      ]_vars

\* C21 witness: the human's attack was refused after the computer had attacked,
\* and it is still the human's turn
C21_Witness ==
    /\ last.op = "human_turn"
    /\ last.exc = "AlreadyAttacked"
    /\ Attacked(grid["human"]) /= {}
    /\ current_player = "human"
    /\ playing

\* C22: the driving loop swaps the roles after each pass whose attack returned
\* an outcome other than win and not after the winning one: the attacker who
\* won is still current_player when the loop has ended, and no grid changes
\* once an attack has returned win.
C22_NoSwapAfterWin ==
    [][/\ (last'.op \in {"human_turn", "ai_turn"} /\ last'.exc = "None") =>
            IF last'.outcome.outcome_state = "WIN"
            THEN /\ ~playing'
                 /\ current_player' = current_player
                 /\ current_opponent' = current_opponent
                 /\ current_player' = last'.player
            ELSE /\ playing'
                 /\ current_player' = current_opponent
                 /\ current_opponent' = current_player
       /\ last.outcome.outcome_state = "WIN" => grid' = grid
      ]_vars

\* C23: no attack of the computer is refused and next_target never finds the
\* queue empty; when the queue is empty the computer's last attack, its 64th,
\* has won the game.
C23_AIWinsWithinQueue ==
    /\ last.op = "ai_turn" => last.exc = "None"
    /\ targets = <<>> =>
          /\ last.op = "ai_turn"
          /\ last.outcome.outcome_state = "WIN"
          /\ active_ship_count["human"] = 0
          /\ ~playing

\* C23 witness: the computer won with the last coordinate of its queue
C23_Witness ==
    /\ targets = <<>>
    /\ last.op = "ai_turn"
    /\ last.outcome.outcome_state = "WIN"
    /\ Cardinality(Attacked(grid["human"])) = 64

====
